---- MODULE Spec2Model ----
(***************************************************************************)
(* The battlescape walk tick of OpenXcom: BattlescapeState::mapClick, the   *)
(* button handlers and BattlescapeState::moveUnit, over a small battle map  *)
(* with two soldiers.  BattleUnit, Pathfinding, Map and SavedBattleGame are *)
(* not part of the sources at hand; they are modelled from the design text. *)
(***************************************************************************)
EXTENDS Integers, Naturals, Sequences, FiniteSets, TLC

VARIABLES
    units,        \* soldier -> [pos, direction, toDirection, status, walkingPhase, destination, tu]
    selected,     \* SavedBattleGame's selected soldier
    path,         \* Pathfinding's staged path: a sequence of directions
    pathUnit,     \* the unit the staged path was calculated for (0: none)
    moved,        \* the static 'moved' latch of moveUnit
    cursorHidden, \* Map::isCursorHidden
    viewHeight,   \* Map's view height level
    commands,     \* number of commands handled so far
    ev,           \* what the last handler did (started or ended a step, turned, set the view)
    timers,       \* the walking and bullet timers, and what the last think call fired
    onStack,      \* the battlescape state is on the game's state stack
    screen,       \* Screen: Timer::gameSlowSpeed, Options::debug/fullscreen, the last event
    position,     \* a Position value and what toVoxel / toTile made of it
    hist          \* history: the path as calculated, who walked each direction taken
                  \* off it, who set the 'moved' latch and who ended a step since

vars == <<units, selected, path, pathUnit, moved, cursorHidden, viewHeight, commands, ev,
          timers, onStack, screen, position, hist>>

\* what no handler of the battlescape state touches
engine == <<screen, position>>

-----------------------------------------------------------------------------
\* Bounds of the exploration

MaxCommands == 2

\* longest run of timer intervals that may elapse between two think calls
MaxDue == 2

\* number of commands issued in a behaviour that is driven by think calls
MaxThinkCommands == 1

-----------------------------------------------------------------------------
\* The battle map

Units == {1, 2}

STATUS_STANDING == "STANDING"
STATUS_WALKING == "WALKING"
STATUS_TURNING == "TURNING"

Directions == 0..7

NoPosition == <<-9, -9, -9>>

GridX == 0..3
GridY == 0..1

\* tiles with a floor a unit can stand on
Floor == {<<x, y, 0>> : x \in GridX, y \in GridY} \cup {<<3, 0, 1>>}

\* solid tiles
Walls == {<<2, 1, 0>>}

\* tiles whose terrain lifts a unit leaving them one level up
Stairs == {<<3, 1, 0>>}

InGrid(p) == p[1] \in GridX /\ p[2] \in GridY /\ p[3] \in 0..1

\* GridCell.walkCost: time units to enter a tile
walkCost(p) == 4

\* cost reported for a step that cannot be made
Impassable(p) == 255

\* map cells the selector can be clicked on (x, y); z is the view level
ClickXY == {<<0, 0>>, <<3, 0>>, <<3, 1>>, <<1, 1>>, <<4, 0>>}

\* Tile::getFootstepSound: the footstep sound class of a tile, 0 for none
getFootstepSound(p) == IF InGrid(p) THEN p[1] % 3 ELSE 0

\* SDL mouse buttons
SDL_BUTTON_LEFT == "LEFT"
SDL_BUTTON_RIGHT == "RIGHT"
SDL_BUTTON_MIDDLE == "MIDDLE"

-----------------------------------------------------------------------------
\* Position.h

PositionAdd(a, b) == <<a[1] + b[1], a[2] + b[2], a[3] + b[3]>>

-----------------------------------------------------------------------------
\* Grid model and octants

DirX == <<0, 1, 1, 1, 0, -1, -1, -1>>
DirY == <<-1, -1, 0, 1, 1, 1, 0, -1>>

directionToVector(d) == <<DirX[d + 1], DirY[d + 1], 0>>

isPassable(p) == InGrid(p) /\ p \in Floor /\ p \notin Walls

Occupied(p, unit) == \E o \in Units : o # unit /\ units[o].pos = p

\* where a step from 'from' in direction d lands: stairs lift, a missing floor drops
Landing(from, d) ==
    LET up == IF from \in Stairs THEN 1 ELSE 0
        t  == PositionAdd(PositionAdd(from, directionToVector(d)), <<0, 0, up>>)
    IN  IF t[3] > 0 /\ t \notin Floor THEN PositionAdd(t, <<0, 0, -1>>) ELSE t

\* a diagonal step needs both flanking orthogonal cells passable
CornersFree(from, d) ==
    (d % 2 = 1) =>
        /\ isPassable(<<from[1] + DirX[d + 1], from[2], from[3]>>)
        /\ isPassable(<<from[1], from[2] + DirY[d + 1], from[3]>>)

\* mutant: a diagonal step is allowed whatever its flanking cells are
isBlocked_CutsCorners(from, d, unit) ==
    \/ ~isPassable(Landing(from, d))
    \/ Occupied(Landing(from, d), unit)

isBlocked(from, d, unit) ==
    \/ ~isPassable(Landing(from, d))
    \/ Occupied(Landing(from, d), unit)
    \/ ~CornersFree(from, d)

\* Pathfinding::getTUCost(from, direction, &destination, unit)
getTUCost(from, d, unit) ==
    [cost |-> IF isBlocked(from, d, unit) THEN Impassable(from) ELSE walkCost(Landing(from, d)),
     destination |-> Landing(from, d)]

-----------------------------------------------------------------------------
\* Pathfinding

RemoveAt(s, i) == SubSeq(s, 1, i - 1) \o SubSeq(s, i + 1, Len(s))

\* first index of a cheapest entry: the entry discovered first wins ties
BestIndex(open) ==
    CHOOSE i \in 1..Len(open) :
        /\ \A j \in 1..Len(open) : open[i].cost <= open[j].cost
        /\ \A j \in 1..(i - 1) : open[j].cost > open[i].cost

RECURSIVE Successors(_, _, _, _)
Successors(n, d, closed, unit) ==
    IF d > 7 THEN <<>>
    ELSE LET r == getTUCost(n.pos, d, unit)
             rest == Successors(n, d + 1, closed, unit)
         IN  IF r.cost < Impassable(n.pos) /\ r.destination \notin closed
             THEN <<[pos |-> r.destination, cost |-> n.cost + r.cost,
                     path |-> Append(n.path, d)]>> \o rest
             ELSE rest

\* the search: the node the goal is reached with, with its path and total cost
RECURSIVE SearchNode(_, _, _, _)
SearchNode(open, closed, goal, unit) ==
    IF open = <<>> THEN [pos |-> NoPosition, cost |-> 0, path |-> <<>>]
    ELSE LET i == BestIndex(open)
             n == open[i]
         IN  IF n.pos = goal THEN n
             ELSE IF n.pos \in closed THEN SearchNode(RemoveAt(open, i), closed, goal, unit)
             ELSE SearchNode(RemoveAt(open, i) \o Successors(n, 0, closed \cup {n.pos}, unit),
                             closed \cup {n.pos}, goal, unit)

Search(open, closed, goal, unit) == SearchNode(open, closed, goal, unit).path

\* Pathfinding::calculate(unit, destination): the staged path, empty for NoPath
calculate(unit, goal) ==
    IF ~isPassable(goal) \/ Occupied(goal, unit) THEN <<>>
    ELSE Search(<<[pos |-> units[unit].pos, cost |-> 0, path |-> <<>>]>>, {}, goal, unit)

\* the total cost Pathfinding holds for the path calculate returns
totalCost(unit, goal) ==
    IF ~isPassable(goal) \/ Occupied(goal, unit) THEN 0
    ELSE SearchNode(<<[pos |-> units[unit].pos, cost |-> 0, path |-> <<>>]>>, {}, goal, unit).cost

\* Pathfinding::getStartDirection()
getStartDirection(p) == IF p = <<>> THEN -1 ELSE Head(p)

\* Pathfinding::dequeuePath(): the path left after the front direction is taken
dequeuePath(p) == Tail(p)

-----------------------------------------------------------------------------
\* BattleUnit

\* number of walking phases of one tile traversal
WalkPhases == 8

Abs(n) == IF n < 0 THEN -n ELSE n

\* the octant in which 'to' lies as seen from 'from' (-1: the same cell)
DirectionTo(from, to) ==
    LET dx == to[1] - from[1]
        dy == to[2] - from[2]
    IN  IF dx = 0 /\ dy = 0 THEN -1
        ELSE IF 12 * Abs(dy) < 5 * Abs(dx) THEN (IF dx > 0 THEN 2 ELSE 6)
        ELSE IF 12 * Abs(dx) < 5 * Abs(dy) THEN (IF dy < 0 THEN 0 ELSE 4)
        ELSE IF dx > 0 THEN (IF dy < 0 THEN 1 ELSE 3)
        ELSE (IF dy > 0 THEN 5 ELSE 7)

\* BattleUnit::lookAt(int direction): aim at an octant; a standing unit starts turning
lookAtDirection(u, d) ==
    IF u.status = STATUS_WALKING THEN u
    ELSE [u EXCEPT !.toDirection = d,
                   !.status = IF u.status = STATUS_STANDING /\ d # u.direction
                              THEN STATUS_TURNING ELSE u.status]

\* BattleUnit::lookAt(const Position &point)
lookAt(u, point) ==
    IF DirectionTo(u.pos, point) = -1 THEN u
    ELSE lookAtDirection(u, DirectionTo(u.pos, point))

\* BattleUnit::turn(): one octant towards toDirection, the short way round
turn(u) ==
    LET a == u.toDirection - u.direction
        d == IF a = 0 THEN u.direction
             ELSE IF a > 0 THEN (IF a <= 4 THEN u.direction + 1 ELSE u.direction - 1)
             ELSE (IF a > -4 THEN u.direction - 1 ELSE u.direction + 1)
        w == (d + 8) % 8
    IN  [u EXCEPT !.direction = w,
                  !.status = IF w = u.toDirection THEN STATUS_STANDING ELSE u.status]

\* BattleUnit::startWalking(direction, destination)
startWalking(u, d, destination) ==
    [u EXCEPT !.direction = d, !.status = STATUS_WALKING,
              !.walkingPhase = 0, !.destination = destination]

\* BattleUnit::keepWalking(): the next walking phase; the last one arrives
keepWalking(u) ==
    IF u.walkingPhase + 1 >= WalkPhases
    THEN [u EXCEPT !.walkingPhase = 0, !.pos = u.destination,
                   !.destination = NoPosition, !.status = STATUS_STANDING]
    ELSE [u EXCEPT !.walkingPhase = u.walkingPhase + 1]

-----------------------------------------------------------------------------
\* SavedBattleGame and Map

\* SavedBattleGame::selectUnit(pos): the unit standing on pos (0: none)
selectUnit(pos) ==
    IF \E o \in Units : units[o].pos = pos
    THEN CHOOSE o \in Units : units[o].pos = pos /\ \A q \in Units : units[q].pos = pos => o <= q
    ELSE 0

\* SavedBattleGame::selectNextSoldier()
selectNextSoldier == IF selected + 1 \in Units THEN selected + 1 ELSE 1

Levels == 0..1

\* Map::up() and Map::down()
MapUp(h) == IF h + 1 \in Levels THEN h + 1 ELSE h
MapDown(h) == IF h - 1 \in Levels THEN h - 1 ELSE h

-----------------------------------------------------------------------------
\* What a handler did, for the properties below

\* nothing calculated, nobody walking, the latch not set
NoHistory == [calc |-> <<>>, walkers |-> <<>>, latchBy |-> 0, ended |-> {}]

\* Pathfinding::calculate has staged a new path: nothing of it is walked yet
Staged(p) == [hist EXCEPT !.calc = p, !.walkers = <<>>]

NoEvent(op) ==
    [op |-> op, started |-> FALSE, ended |-> FALSE, turned |-> FALSE,
     cost |-> 0, owner |-> 0, viewSet |-> FALSE, viewWas |-> viewHeight,
     button |-> "", target |-> NoPosition, look |-> -1, calc |-> FALSE,
     sound |-> 0, drawn |-> <<>>, walked |-> FALSE, decision |-> "none",
     viewBy |-> {}]

CanCommand == onStack /\ commands < MaxCommands

-----------------------------------------------------------------------------
\* BattlescapeState: the command handlers

\* mapClick, left button: select the unit on the cell, else path the selected unit there
\* mutant: the path staged before is kept and the new one is appended to it
MapClickLeft_KeepsOldPath(pos) ==
    IF selectUnit(pos) # 0
    THEN /\ selected' = selectUnit(pos)
         /\ ev' = [NoEvent("mapClick") EXCEPT !.button = SDL_BUTTON_LEFT, !.target = pos]
         /\ UNCHANGED <<units, path, pathUnit>>
    ELSE /\ path' = path \o calculate(selected, pos)
         /\ pathUnit' = selected
         /\ ev' = [NoEvent("mapClick") EXCEPT !.button = SDL_BUTTON_LEFT, !.target = pos,
                                              !.calc = TRUE]
         /\ UNCHANGED <<units, selected>>

\* mutant: calculate is handed a unit other than the selected one
MapClickLeft_PathForOtherUnit(pos) ==
    IF selectUnit(pos) # 0
    THEN /\ selected' = selectUnit(pos)
         /\ ev' = [NoEvent("mapClick") EXCEPT !.button = SDL_BUTTON_LEFT, !.target = pos]
         /\ UNCHANGED <<units, path, pathUnit>>
    ELSE /\ path' = calculate(CHOOSE o \in Units : o # selected, pos)
         /\ pathUnit' = selected
         /\ ev' = [NoEvent("mapClick") EXCEPT !.button = SDL_BUTTON_LEFT, !.target = pos,
                                              !.calc = TRUE]
         /\ UNCHANGED <<units, selected>>

\* mutant: a move command also turns the unit toward the clicked cell
MapClickLeft_TurnsToTarget(pos) ==
    IF selectUnit(pos) # 0
    THEN /\ selected' = selectUnit(pos)
         /\ ev' = [NoEvent("mapClick") EXCEPT !.button = SDL_BUTTON_LEFT, !.target = pos]
         /\ UNCHANGED <<units, path, pathUnit>>
    ELSE /\ path' = calculate(selected, pos)
         /\ pathUnit' = selected
         /\ units' = [units EXCEPT ![selected] = lookAt(units[selected], pos)]
         /\ ev' = [NoEvent("mapClick") EXCEPT !.button = SDL_BUTTON_LEFT, !.target = pos,
                                              !.calc = TRUE]
         /\ UNCHANGED selected

\* mutant: no return after the clicked unit is selected
MapClickLeft_NoReturn(pos) ==
    /\ selected' = IF selectUnit(pos) # 0 THEN selectUnit(pos) ELSE selected
    /\ path' = calculate(selected', pos)
    /\ pathUnit' = selected'
    /\ ev' = [NoEvent("mapClick") EXCEPT !.button = SDL_BUTTON_LEFT, !.target = pos,
                                         !.calc = TRUE]
    /\ UNCHANGED units

MapClickLeft(pos) ==
    IF selectUnit(pos) # 0
    THEN /\ selected' = selectUnit(pos)
         /\ ev' = [NoEvent("mapClick") EXCEPT !.button = SDL_BUTTON_LEFT, !.target = pos]
         /\ UNCHANGED <<units, path, pathUnit>>
    ELSE /\ path' = calculate(selected, pos)
         /\ pathUnit' = selected
         /\ ev' = [NoEvent("mapClick") EXCEPT !.button = SDL_BUTTON_LEFT, !.target = pos,
                                              !.calc = TRUE]
         /\ UNCHANGED <<units, selected>>

\* mapClick, right button: the selected unit looks at the cell
\* mutant: the right button also reaches Pathfinding::calculate
MapClickRight_Calculates(pos) ==
    /\ units' = [units EXCEPT ![selected] = lookAt(units[selected], pos)]
    /\ path' = calculate(selected, pos)
    /\ pathUnit' = selected
    /\ ev' = [NoEvent("mapClick") EXCEPT
                 !.button = SDL_BUTTON_RIGHT, !.target = pos, !.calc = TRUE,
                 !.look = IF units[selected].status # STATUS_STANDING THEN -1
                          ELSE DirectionTo(units[selected].pos, pos)]
    /\ UNCHANGED selected

MapClickRight(pos) ==
    /\ units' = [units EXCEPT ![selected] = lookAt(units[selected], pos)]
    /\ ev' = [NoEvent("mapClick") EXCEPT
                 !.button = SDL_BUTTON_RIGHT, !.target = pos,
                 !.look = IF units[selected].status # STATUS_STANDING THEN -1
                          ELSE DirectionTo(units[selected].pos, pos)]
    /\ UNCHANGED <<selected, path, pathUnit>>

MapClick(inButtonsArea, button, pos) ==
    /\ CanCommand
    /\ IF inButtonsArea
       THEN /\ ev' = NoEvent("mapClick")
            /\ UNCHANGED <<units, selected, path, pathUnit>>
       ELSE IF button = SDL_BUTTON_LEFT THEN MapClickLeft(pos)
       ELSE IF button = SDL_BUTTON_RIGHT THEN MapClickRight(pos)
       ELSE /\ ev' = [NoEvent("mapClick") EXCEPT !.button = button, !.target = pos]
            /\ UNCHANGED <<units, selected, path, pathUnit>>
    /\ commands' = commands + 1
    /\ hist' = IF ev'.calc THEN Staged(path') ELSE hist
    /\ UNCHANGED <<moved, cursorHidden, viewHeight, timers, onStack, engine>>

\* mutant: the button moves the unit to the level itself instead of asking Pathfinding
UnitLevelClick_MovesUnit(op, dz) ==
    /\ CanCommand
    /\ units' = [units EXCEPT
                    ![selected].pos = PositionAdd(units[selected].pos, <<0, 0, dz>>)]
    /\ path' = <<>>
    /\ pathUnit' = selected
    /\ commands' = commands + 1
    /\ ev' = [NoEvent(op) EXCEPT
                 !.target = PositionAdd(units[selected].pos, <<0, 0, dz>>), !.calc = TRUE]
    /\ hist' = Staged(path')
    /\ UNCHANGED <<selected, moved, cursorHidden, viewHeight, timers, onStack, engine>>

\* common shape of btnUnitUpClick / btnUnitDownClick
UnitLevelClick(op, dz) ==
    /\ CanCommand
    /\ path' = calculate(selected, PositionAdd(units[selected].pos, <<0, 0, dz>>))
    /\ pathUnit' = selected
    /\ commands' = commands + 1
    /\ ev' = [NoEvent(op) EXCEPT
                 !.target = PositionAdd(units[selected].pos, <<0, 0, dz>>), !.calc = TRUE]
    /\ hist' = Staged(path')
    /\ UNCHANGED <<units, selected, moved, cursorHidden, viewHeight, timers, onStack, engine>>

btnUnitUpClick == UnitLevelClick("btnUnitUp", 1)

btnUnitDownClick == UnitLevelClick("btnUnitDown", -1)

btnMapUpClick ==
    /\ CanCommand
    /\ viewHeight' = MapUp(viewHeight)
    /\ commands' = commands + 1
    /\ ev' = NoEvent("btnMapUp")
    /\ UNCHANGED <<units, selected, path, pathUnit, moved, cursorHidden, timers, onStack, hist, engine>>

btnMapDownClick ==
    /\ CanCommand
    /\ viewHeight' = MapDown(viewHeight)
    /\ commands' = commands + 1
    /\ ev' = NoEvent("btnMapDown")
    /\ UNCHANGED <<units, selected, path, pathUnit, moved, cursorHidden, timers, onStack, hist, engine>>

\* mutant: centring the view also moves the selection on, as next-soldier does
btnCenterClick_SelectsNext ==
    /\ CanCommand
    /\ selected' = selectNextSoldier
    /\ commands' = commands + 1
    /\ ev' = NoEvent("btnCenter")
    /\ UNCHANGED <<units, path, pathUnit, moved, cursorHidden, viewHeight,
                   timers, onStack, hist, engine>>

btnCenterClick ==
    /\ CanCommand
    /\ commands' = commands + 1
    /\ ev' = NoEvent("btnCenter")
    /\ UNCHANGED <<units, selected, path, pathUnit, moved, cursorHidden, viewHeight,
                   timers, onStack, hist, engine>>

btnNextSoldierClick ==
    /\ CanCommand
    /\ selected' = selectNextSoldier
    /\ commands' = commands + 1
    /\ ev' = NoEvent("btnNextSoldier")
    /\ UNCHANGED <<units, path, pathUnit, moved, cursorHidden, viewHeight, timers, onStack, hist, engine>>

\* btnEndTurnClick: empty
btnEndTurnClick ==
    /\ CanCommand
    /\ commands' = commands + 1
    /\ ev' = NoEvent("btnEndTurn")
    /\ UNCHANGED <<units, selected, path, pathUnit, moved, cursorHidden, viewHeight,
                   timers, onStack, hist, engine>>

\* btnAbortClick: returnToBase, endBattle, popState; the handler returns at once and the
\* popped state gets no further think call or event
btnAbortClick ==
    /\ CanCommand
    /\ onStack' = FALSE
    /\ commands' = commands + 1
    /\ ev' = NoEvent("btnAbort")
    /\ UNCHANGED <<units, selected, path, pathUnit, moved, cursorHidden, viewHeight,
                   timers, hist, engine>>

-----------------------------------------------------------------------------
\* BattlescapeState::moveUnit, the walk tick

\* mutant: the Walking branch advances the walking phase twice in one call
WalkBranch_Twice(u) ==
    IF u.status = STATUS_WALKING
    THEN (IF keepWalking(u).status = STATUS_WALKING THEN keepWalking(keepWalking(u))
          ELSE keepWalking(u))
    ELSE u

\* if (status == STATUS_WALKING) keepWalking()
WalkBranch(u) == IF u.status = STATUS_WALKING THEN keepWalking(u) ELSE u

\* the footstep played after keepWalking: getSound(22 + class * 2) at phase 3,
\* getSound(23 + class * 2) at phase 7, keyed by the tile under getPosition(); 0: none
FootstepSound(u) ==
    IF u.walkingPhase = 3 /\ getFootstepSound(u.pos) # 0
    THEN 22 + getFootstepSound(u.pos) * 2
    ELSE IF u.walkingPhase = 7 /\ getFootstepSound(u.pos) # 0
    THEN 23 + getFootstepSound(u.pos) * 2
    ELSE 0

\* mutant: the map is drawn before keepWalking and before turn
MapDrawn_BeforeAnimation(u0, u1, u2) ==
    IF u0.status = STATUS_WALKING THEN <<u0>>
    ELSE IF u1.status = STATUS_TURNING THEN <<u1>>
    ELSE <<>>

\* _map->draw() after keepWalking and after turn: the unit as the map draws it
MapDrawn(u0, u1, u2) ==
    IF u0.status = STATUS_WALKING THEN <<u1>>
    ELSE IF u1.status = STATUS_TURNING THEN <<u2>>
    ELSE <<>>

\* mutant: the Turning branch never calls turn()
TurnBranch_Skipped(u) == u

\* mutant: turn() is called for every unit that is not Standing
TurnBranch_AnyMoving(u) == IF u.status # STATUS_STANDING THEN turn(u) ELSE u

\* mutant: the turn is run to its end within one tick (while instead of if)
TurnBranch_UntilDone(u) ==
    IF u.status = STATUS_TURNING
    THEN [u EXCEPT !.direction = u.toDirection, !.status = STATUS_STANDING]
    ELSE u

\* if (status == STATUS_TURNING) turn()
TurnBranch(u) == IF u.status = STATUS_TURNING THEN turn(u) ELSE u

\* mutant: the staged path is examined whatever the unit's status
PathExamined_Always(u) == TRUE

\* if (status == STATUS_STANDING): the latch and the staged path are examined
PathExamined(u) == u.status = STATUS_STANDING

\* mutant: the view height is left alone after a step
ViewAfterStep_Stale(latched, u, h) == h

\* if (moved) setViewHeight(position.z)
ViewAfterStep(latched, u, h) == IF latched THEN u.pos[3] ELSE h

\* mutant: the step is started without comparing the facing with the direction
FacingPath_Unchecked(u, dir) == TRUE

\* dir == soldier->getDirection(): the unit already faces the next direction
FacingPath(u, dir) == dir = u.direction

\* mutant: startWalking gets the default-constructed Position, not getTUCost's result
StepTaken_NullDestination(u, dir, unit) == startWalking(u, dir, <<0, 0, 0>>)

\* tu = getTUCost(position, dir, &destination, soldier); startWalking(dir, destination)
StepTaken(u, dir, unit) == startWalking(u, dir, getTUCost(u.pos, dir, unit).destination)

MoveUnit ==
    LET s   == selected
        u0  == units[s]
        u1  == WalkBranch(u0)
        u2  == TurnBranch(u1)
        dir == getStartDirection(path)
        \* who has ended a step while the latch was set, this firing included
        ended == IF moved /\ u0.status = STATUS_WALKING /\ u1.status # STATUS_WALKING
                 THEN hist.ended \cup {s} ELSE hist.ended
        \* 'moved = false' in the view-height branch
        cleared == [hist EXCEPT !.latchBy = 0, !.ended = {}]
        e   == [NoEvent("moveUnit") EXCEPT
                   !.walked = (u0.status = STATUS_WALKING),
                   !.ended = (u0.status = STATUS_WALKING /\ u1.status # STATUS_WALKING),
                   !.turned = (u1.status = STATUS_TURNING),
                   !.sound = IF u0.status = STATUS_WALKING THEN FootstepSound(u1) ELSE 0,
                   !.drawn = MapDrawn(u0, u1, u2),
                   !.viewBy = IF moved THEN ended ELSE {}]
    IN  IF ~PathExamined(u2)
        THEN /\ units' = [units EXCEPT ![s] = u2]
             /\ ev' = e
             /\ hist' = [hist EXCEPT !.ended = ended]
             /\ UNCHANGED <<selected, path, pathUnit, moved, cursorHidden, viewHeight, commands>>
        ELSE /\ viewHeight' = ViewAfterStep(moved, u2, viewHeight)
             /\ IF dir # -1
                THEN IF ~FacingPath(u2, dir)
                     THEN \* we are looking in the wrong way, turn first
                          /\ units' = [units EXCEPT ![s] = lookAtDirection(u2, dir)]
                          /\ moved' = FALSE
                          /\ ev' = [e EXCEPT !.viewSet = moved, !.decision = "turn"]
                          /\ hist' = cleared
                          /\ UNCHANGED <<path, cursorHidden>>
                     ELSE \* now we can move
                          /\ path' = dequeuePath(path)
                          /\ units' = [units EXCEPT ![s] = StepTaken(u2, dir, s)]
                          /\ cursorHidden' = TRUE
                          /\ moved' = TRUE
                          /\ ev' = [e EXCEPT !.viewSet = moved, !.started = TRUE,
                                             !.decision = "walk",
                                             !.cost = getTUCost(u2.pos, dir, s).cost,
                                             !.owner = pathUnit]
                          /\ hist' = [cleared EXCEPT !.walkers = Append(@, s),
                                                     !.latchBy = s]
                ELSE /\ units' = [units EXCEPT ![s] = u2]
                     /\ cursorHidden' = FALSE
                     /\ moved' = FALSE
                     /\ ev' = [e EXCEPT !.viewSet = moved,
                                        !.decision = IF cursorHidden THEN "cursor" ELSE "none"]
                     /\ hist' = cleared
                     /\ UNCHANGED path
             /\ UNCHANGED <<selected, pathUnit, commands>>

-----------------------------------------------------------------------------
\* Timer and BattlescapeState::think

\* both timers as the constructor starts them: no interval elapsed, nothing fired
TimersStarted ==
    [op |-> "start", walkDue |-> 0, bulletDue |-> 0, walkWas |-> 0, bulletWas |-> 0,
     walkFires |-> 0, bulletFires |-> 0]

\* Timer::think(state, surface): the handler runs once when at least one interval has
\* elapsed since it last ran, and the timer starts counting afresh
TimerThink(due) == IF due >= 1 THEN 1 ELSE 0

\* mutant: think() runs the walking timer once for every interval that has elapsed
WalkTimerFires_CatchUp(due) == due

\* _walkingTimer->think(this, 0): how often moveUnit runs in one think call
WalkTimerFires(due) == TimerThink(due)

\* _bulletTimer->think(this, 0): how often moveBullet runs in one think call
BulletTimerFires(due) == TimerThink(due)

\* BattlescapeState::moveBullet: empty
moveBullet == TRUE

\* wall-clock time passes between two think calls: each timer may come due once more
Elapse ==
    /\ onStack
    /\ \E w \in 0..1, b \in 0..1 :
          /\ w + b >= 1
          /\ timers.walkDue + w <= MaxDue
          /\ timers.bulletDue + b <= MaxDue
          /\ timers' = [op |-> "elapse",
                        walkDue |-> timers.walkDue + w, bulletDue |-> timers.bulletDue + b,
                        walkWas |-> 0, bulletWas |-> 0, walkFires |-> 0, bulletFires |-> 0]
    /\ UNCHANGED <<units, selected, path, pathUnit, moved, cursorHidden, viewHeight,
                   commands, ev, onStack, hist, engine>>

-----------------------------------------------------------------------------
\* Screen::handle and Timer::gameSlowSpeed

SDL_KEYDOWN == "KEYDOWN"
SDL_KEYUP == "KEYUP"
SDLK_F8 == "F8"
SDLK_RETURN == "RETURN"
SDLK_F7 == "F7"

\* number of events handed to Screen::handle in a behaviour
MaxKeys == 3

\* the screen as the game starts it: Timer::gameSlowSpeed is 1
ScreenStarted(debug) ==
    [gameSlowSpeed |-> 1, debug |-> debug, fullscreen |-> FALSE, keys |-> 0,
     last |-> <<"", "", FALSE>>]

\* mutant: the switch has no case for 5
NextSlowSpeed_NoFifteen(g) == IF g = 1 THEN 5 ELSE 1

\* switch (Timer::gameSlowSpeed): 1 -> 5, 5 -> 15, default -> 1
NextSlowSpeed(g) == IF g = 1 THEN 5 ELSE IF g = 5 THEN 15 ELSE 1

\* Screen::handle(action): the debug slow-motion shortcut and the fullscreen shortcut
ScreenHandle(type, sym, alt) ==
    /\ screen.keys < MaxKeys
    /\ screen' = [screen EXCEPT
                     !.gameSlowSpeed =
                         IF screen.debug /\ type = SDL_KEYDOWN /\ sym = SDLK_F8 /\ alt
                         THEN NextSlowSpeed(@) ELSE @,
                     !.fullscreen =
                         IF type = SDL_KEYDOWN /\ sym = SDLK_RETURN /\ alt THEN ~@ ELSE @,
                     !.keys = @ + 1,
                     !.last = <<type, sym, alt>>]
    /\ UNCHANGED <<units, selected, path, pathUnit, moved, cursorHidden, viewHeight,
                   commands, ev, timers, onStack, position, hist>>

-----------------------------------------------------------------------------
\* Position: tile and voxel coordinates

TileXY == 16
TileZ == 24

\* a value stored into a Sint16 field
Sint16(v) == ((v + 32768) % 65536) - 32768

\* integer division of C++: the quotient is truncated toward zero
Quot(a, b) == IF a >= 0 THEN a \div b ELSE -((-a) \div b)

\* Position(int x_, int y_, int z_): each argument is stored into a Sint16
Position(x, y, z) == <<Sint16(x), Sint16(y), Sint16(z)>>

\* Position::toVoxel
toVoxel(p) == Position(p[1] * TileXY, p[2] * TileXY, p[3] * TileZ)

\* Position::toTile
toTile(p) == Position(Quot(p[1], TileXY), Quot(p[2], TileXY), Quot(p[3], TileZ))

\* component values a Position is tried with: small ones, and the ends of the range
\* whose products by 16 and by 24 still fit 16 bits
Coords == {-2049, -2048, -1366, -1365, -17, 0, 23, 1365, 1366, 2047, 2048}

\* a Position as constructed, before any conversion
PositionHeld(p) == [p |-> p, op |-> "held", result |-> p]

\* p.toVoxel()
ToVoxel ==
    /\ position.op = "held"
    /\ position' = [position EXCEPT !.op = "toVoxel", !.result = toVoxel(position.p)]
    /\ UNCHANGED <<units, selected, path, pathUnit, moved, cursorHidden, viewHeight,
                   commands, ev, timers, onStack, screen, hist>>

\* v.toTile(), of the Position as held or of the voxel position toVoxel returned
ToTile ==
    /\ position.op \in {"held", "toVoxel"}
    /\ position' = [position EXCEPT
                       !.op = IF @ = "held" THEN "toTile" ELSE "toVoxel.toTile",
                       !.result = toTile(position.result)]
    /\ UNCHANGED <<units, selected, path, pathUnit, moved, cursorHidden, viewHeight,
                   commands, ev, timers, onStack, screen, hist>>

\* the largest value of an int (32 bits)
INT_MAX == 2147483647

\* a non-negative integer of up to 34 bits, kept as hi * 65536 + lo with lo < 65536
Wide(hi, lo) == [hi |-> hi, lo |-> lo]

\* d * d as the mathematical integer, for a difference d of two Sint16 values
Square(d) ==
    LET a == IF d < 0 THEN -d ELSE d
        h == a \div 256
        l == a % 256
        m == 2 * h * l * 256 + l * l
    IN  Wide(h * h + m \div 65536, m % 65536)

\* a + b as the mathematical integer
WideAdd(a, b) == Wide(a.hi + b.hi + (a.lo + b.lo) \div 65536, (a.lo + b.lo) % 65536)

\* the value fits an int: it is at most INT_MAX
FitsInt(w) == w.hi <= INT_MAX \div 65536

\* the value reduced modulo 2^32 to the range of an int
WrapInt(w) ==
    LET h == w.hi % 65536
    IN  (IF h > INT_MAX \div 65536 THEN h - 65536 ELSE h) * 65536 + w.lo

\* what an int expression of non-negative terms returns: its value when it fits, and
\* on signed overflow (undefined behaviour) either the value wrapped to 32 bits or a
\* trap, depending on the build
IntResult(w) ==
    IF FitsInt(w)
    THEN {[value |-> WrapInt(w), trapped |-> FALSE]}
    ELSE {[value |-> WrapInt(w), trapped |-> FALSE], [value |-> 0, trapped |-> TRUE]}

\* Position::distanceSq: x*x + y*y + z*z of the component differences, as an int
distanceSq(pos1, pos2) ==
    LET x == pos1[1] - pos2[1]
        y == pos1[2] - pos2[2]
        z == pos1[3] - pos2[3]
    IN  IntResult(WideAdd(WideAdd(Square(x), Square(y)), Square(z)))

\* Position::distance2dSq: x*x + y*y of the component differences, as an int
distance2dSq(pos1, pos2) ==
    LET x == pos1[1] - pos2[1]
        y == pos1[2] - pos2[2]
    IN  IntResult(WideAdd(Square(x), Square(y)))

\* x and y values two Positions are compared with: the ends of the Sint16 range, and
\* -13573 and -13574, whose differences from 32767 are the last whose square fits an
\* int and the first whose square does not
DistanceXY == {-32768, -13574, -13573, 0, 1, 32767}

\* z values two Positions are compared with
DistanceZ == {-32768, 0, 32767}

\* two Positions as constructed, before they are compared
PositionPair(p, q) == [p |-> p, q |-> q, op |-> "held", result |-> p]

\* Position::distanceSq(p, q)
DistanceSq ==
    /\ position.op = "held"
    /\ \E r \in distanceSq(position.p, position.q) :
          position' = [position EXCEPT !.op = "distanceSq", !.result = r]
    /\ UNCHANGED <<units, selected, path, pathUnit, moved, cursorHidden, viewHeight,
                   commands, ev, timers, onStack, screen, hist>>

\* Position::distance2dSq(p, q)
Distance2dSq ==
    /\ position.op = "held"
    /\ \E r \in distance2dSq(position.p, position.q) :
          position' = [position EXCEPT !.op = "distance2dSq", !.result = r]
    /\ UNCHANGED <<units, selected, path, pathUnit, moved, cursorHidden, viewHeight,
                   commands, ev, timers, onStack, screen, hist>>

-----------------------------------------------------------------------------
\* The battle as the state opens on it

InitUnits ==
    (1 :> [pos |-> <<0, 0, 0>>, direction |-> 2, toDirection |-> 2,
           status |-> STATUS_STANDING, walkingPhase |-> 0,
           destination |-> NoPosition, tu |-> 10])
    @@
    (2 :> [pos |-> <<3, 1, 0>>, direction |-> 0, toDirection |-> 0,
           status |-> STATUS_STANDING, walkingPhase |-> 0,
           destination |-> NoPosition, tu |-> 3])

BattleStarted ==
    /\ units = InitUnits
    /\ selected \in Units
    /\ path = <<>>
    /\ pathUnit = 0
    /\ moved = FALSE
    /\ cursorHidden = FALSE
    /\ viewHeight = 0
    /\ commands = 0
    /\ ev = NoEvent("init")
    /\ timers = TimersStarted
    /\ onStack = TRUE
    /\ hist = NoHistory

Init ==
    /\ BattleStarted
    /\ screen = ScreenStarted(FALSE)
    /\ position = PositionHeld(<<0, 0, 0>>)

\* a firing of the walking timer, taken on its own
WalkTick == onStack /\ MoveUnit /\ UNCHANGED <<timers, onStack, engine>>

\* BattlescapeState::think: the walking timer, then the bullet timer, then the map
Think ==
    /\ onStack
    /\ IF WalkTimerFires(timers.walkDue) >= 1
       THEN MoveUnit
       ELSE /\ ev' = NoEvent("think")
            /\ UNCHANGED <<units, selected, path, pathUnit, moved, cursorHidden,
                           viewHeight, commands, hist>>
    /\ BulletTimerFires(timers.bulletDue) >= 1 => moveBullet
    /\ timers' = [op |-> "think", walkDue |-> 0, bulletDue |-> 0,
                  walkWas |-> timers.walkDue, bulletWas |-> timers.bulletDue,
                  walkFires |-> WalkTimerFires(timers.walkDue),
                  bulletFires |-> BulletTimerFires(timers.bulletDue)]
    /\ UNCHANGED <<onStack, engine>>

\* the commands the interface can issue
Command ==
    \/ \E b \in {SDL_BUTTON_LEFT, SDL_BUTTON_RIGHT}, c \in ClickXY :
           MapClick(FALSE, b, <<c[1], c[2], viewHeight>>)
    \/ MapClick(TRUE, SDL_BUTTON_LEFT, <<0, 0, viewHeight>>)
    \/ MapClick(FALSE, SDL_BUTTON_MIDDLE, <<0, 0, viewHeight>>)
    \/ btnUnitUpClick
    \/ btnUnitDownClick
    \/ btnMapUpClick
    \/ btnMapDownClick
    \/ btnCenterClick
    \/ btnNextSoldierClick
    \/ btnEndTurnClick
    \/ btnAbortClick

Next ==
    \/ WalkTick
    \/ Command

Spec == Init /\ [][Next]_vars

\* the same battle driven by think calls with wall-clock time passing between them
NextThink ==
    \/ Think
    \/ Elapse
    \/ (commands < MaxThinkCommands /\ Command)

SpecThink == Init /\ [][NextThink]_vars

\* the screen's key shortcuts, with debug mode on or off
InitScreen ==
    /\ BattleStarted
    /\ screen \in {ScreenStarted(debug) : debug \in BOOLEAN}
    /\ position = PositionHeld(<<0, 0, 0>>)

NextScreen ==
    \E type \in {SDL_KEYDOWN, SDL_KEYUP}, sym \in {SDLK_F8, SDLK_RETURN, SDLK_F7},
       alt \in BOOLEAN : ScreenHandle(type, sym, alt)

SpecScreen == InitScreen /\ [][NextScreen]_vars

\* Position values and their conversions
InitPosition ==
    /\ BattleStarted
    /\ screen = ScreenStarted(FALSE)
    /\ position \in {PositionHeld(<<x, y, z>>) : x \in Coords, y \in Coords, z \in Coords}

NextPosition == ToVoxel \/ ToTile

SpecPosition == InitPosition /\ [][NextPosition]_vars

\* pairs of Position values and their squared distances
InitDistance ==
    /\ BattleStarted
    /\ screen = ScreenStarted(FALSE)
    /\ position \in {PositionPair(Position(x1, y1, z1), Position(x2, y2, z2)) :
                        x1 \in DistanceXY, y1 \in DistanceXY, z1 \in DistanceZ,
                        x2 \in DistanceXY, y2 \in DistanceXY, z2 \in DistanceZ}

NextDistance == DistanceSq \/ Distance2dSq

SpecDistance == InitDistance /\ [][NextDistance]_vars

\* the walking timer is restarted by every think call and the main loop calls think on
\* every frame, so a walk tick that can change the state is eventually taken
FairSpec == Spec /\ WF_vars(WalkTick)

-----------------------------------------------------------------------------
\* Properties

IsTick == ev'.op = "moveUnit"

IsMoveOrLook == ev'.op \in {"mapClick", "btnUnitUp", "btnUnitDown"}

\* the selected unit as the Standing part of the coming tick finds it
AfterAnimation == TurnBranch(WalkBranch(units[selected]))

\* octants between two facings, the short way round
OctantsApart(a, b) ==
    IF (a - b + 8) % 8 <= (b - a + 8) % 8 THEN (a - b + 8) % 8 ELSE (b - a + 8) % 8

\* C1: the time-unit budget is never negative, and the walk tick starts a step
\* only when the cost getTUCost returned for it is within the unit's budget.
C1_StepWithinBudget ==
    /\ \A u \in Units : units[u].tu >= 0
    /\ (ev.op = "moveUnit" /\ ev.started) => ev.cost <= units[selected].tu

\* C2: a staged step whose cost exceeds the remaining time units is not taken:
\* the unit stays Standing where it is and the whole remaining path is dropped.
C2_UnaffordableStepDropsPath ==
    [][(/\ IsTick
        /\ AfterAnimation.status = STATUS_STANDING
        /\ getStartDirection(path) # -1
        /\ getStartDirection(path) = AfterAnimation.direction
        /\ units[selected].tu
             < getTUCost(AfterAnimation.pos, getStartDirection(path), selected).cost)
       => (/\ units'[selected].status = STATUS_STANDING
           /\ units'[selected].pos = AfterAnimation.pos
           /\ path' = <<>>
           /\ ~ev'.started)]_vars

\* C3: starting a step commits its cost: the time units after the transition are
\* those before minus the cost getTUCost returned, and the destination recorded
\* is the resulting position of that same call.
C3_StepCommitsCost ==
    [][(IsTick /\ ev'.started)
       => (/\ units'[selected].tu = units[selected].tu - ev'.cost
           /\ units'[selected].destination
                = getTUCost(AfterAnimation.pos, Head(path), selected).destination)]_vars

\* C4 as claimed: a unit is Walking exactly when a non-empty path and a
\* destination are staged, the last step of a path included.
C4_WalkingIffPathAndDestination ==
    \A u \in Units :
        units[u].status = STATUS_WALKING
            <=> (path # <<>> /\ units[u].destination # NoPosition)

\* C4 as amended: a unit is Walking exactly when a destination is staged for it;
\* the path holds only the steps after the one in progress, so it may be empty.
C4_WalkingIffDestination ==
    \A u \in Units :
        units[u].status = STATUS_WALKING <=> units[u].destination # NoPosition

C4_Witness_LastStep ==
    /\ units[selected].status = STATUS_WALKING
    /\ units[selected].walkingPhase > 0
    /\ path = <<>>

\* C5: every direction a unit dequeues and walks comes from a path calculated
\* for that same unit.
C5_PathOwnedByWalker ==
    (ev.op = "moveUnit" /\ ev.started) => ev.owner = selected

\* C6: a move or look-at command given while the selected unit is Turning or
\* Walking leaves its status, walking phase, staged destination, position and
\* facing as they are; the step in progress runs on, and the staged path is
\* consulted only by a tick that finds the unit Standing.
C6_CommandDoesNotInterrupt ==
    [][/\ (IsMoveOrLook /\ units[selected].status # STATUS_STANDING)
          => (/\ units'[selected].status = units[selected].status
              /\ units'[selected].walkingPhase = units[selected].walkingPhase
              /\ units'[selected].destination = units[selected].destination
              /\ units'[selected].pos = units[selected].pos
              /\ units'[selected].direction = units[selected].direction)
       /\ (/\ IsTick
           /\ units[selected].status = STATUS_WALKING
           /\ units[selected].walkingPhase + 1 < WalkPhases)
          => (/\ units'[selected].status = STATUS_WALKING
              /\ units'[selected].walkingPhase = units[selected].walkingPhase + 1
              /\ units'[selected].destination = units[selected].destination
              /\ path' = path)
       /\ (/\ IsTick
           /\ units[selected].status = STATUS_TURNING
           /\ units'[selected].status = STATUS_TURNING)
          => path' = path]_vars

\* a second command, a click on the map, reached a unit in the middle of a step
C6_Witness_CommandMidStep ==
    /\ ev.op = "mapClick"
    /\ units[selected].status = STATUS_WALKING
    /\ units[selected].walkingPhase > 0
    /\ pathUnit = selected
    /\ path # <<>>
    /\ commands > 1

\* C7: a step is dequeued and walked only on a tick at which the facing equals
\* the path's next direction; when the Standing unit faces another way the tick
\* issues a turn towards it and neither dequeues nor starts walking.
C7_WalksOnlyWhenFacing ==
    [][IsTick =>
        /\ ev'.started
             => (/\ Head(path) = AfterAnimation.direction
                 /\ units'[selected].direction = AfterAnimation.direction
                 /\ path' = Tail(path))
        /\ (/\ AfterAnimation.status = STATUS_STANDING
            /\ getStartDirection(path) # -1
            /\ getStartDirection(path) # AfterAnimation.direction)
             => (/\ ~ev'.started
                 /\ path' = path
                 /\ units'[selected].status = STATUS_TURNING
                 /\ units'[selected].toDirection = getStartDirection(path)
                 /\ units'[selected].direction = AfterAnimation.direction
                 /\ units'[selected].pos = AfterAnimation.pos)]_vars

\* a unit has turned towards the path and then started the step
C7_Witness_TurnThenWalk ==
    /\ ev.op = "moveUnit"
    /\ ev.started
    /\ units[selected].direction # InitUnits[selected].direction
    /\ units[selected].pos = InitUnits[selected].pos

\* C8: when a Walking step ends the unit stands on the destination staged when
\* the step started, which is the resulting position getTUCost gives for the
\* tile it left and the direction it walked.
C8_StepEndsAtDestination ==
    [][(IsTick /\ ev'.ended)
       => (/\ units'[selected].pos = units[selected].destination
           /\ units'[selected].pos
                = getTUCost(units[selected].pos, units[selected].direction,
                            selected).destination)]_vars

\* a step that climbed from the stairs has ended
C8_Witness_StepEnded ==
    /\ ev.op = "moveUnit"
    /\ ev.ended
    /\ units[selected].pos[3] = 1

\* C9 as claimed: the end of a step sets the view height to the unit's level
\* when the level changed, and a step that keeps the level keeps the view height.
C9_ViewFollowsOnlyLevelChange ==
    [][(IsTick /\ ev'.ended)
       => IF units'[selected].pos[3] # units[selected].pos[3]
          THEN viewHeight' = units'[selected].pos[3]
          ELSE viewHeight' = viewHeight]_vars

\* C9 as amended: a tick that finds the latch set and the selected unit Standing
\* sets the view height to that unit's level, whether or not the level changed,
\* in the same call and before the next step is started; a tick that finds the
\* latch clear, or the unit still moving, leaves the view height alone.
C9_ViewSetWhenLatched ==
    [][IsTick =>
        /\ (moved /\ AfterAnimation.status = STATUS_STANDING)
             => (viewHeight' = units'[selected].pos[3] /\ ev'.viewSet)
        /\ (moved /\ ev'.ended) => viewHeight' = units[selected].destination[3]
        /\ (~moved \/ AfterAnimation.status # STATUS_STANDING)
             => viewHeight' = viewHeight]_vars

\* a step that kept the level has reset a view height the user had raised
C9_Witness_ViewReset ==
    /\ ev.op = "moveUnit"
    /\ ev.ended
    /\ ev.viewSet
    /\ selected = 1
    /\ units[1].pos = <<1, 0, 0>>
    /\ ev.viewWas = 1
    /\ viewHeight = 0

\* C10: on every walk tick each unit's facing changes by at most one octant,
\* also when a turn finishes and the path is examined in the same call.
C10_OneOctantPerTick ==
    [][IsTick =>
        \A u \in Units : OctantsApart(units[u].direction, units'[u].direction) <= 1]_vars

\* a turn finished and the step was started in the same call
C10_Witness_TurnEndsAndStepStarts ==
    /\ ev.op = "moveUnit"
    /\ ev.turned
    /\ ev.started
    /\ units[selected].walkingPhase = 0

-----------------------------------------------------------------------------
\* C11 (as stated): the walk tick at which the facing reaches the target octant of the
\* look-at just issued to a Standing unit leaves the unit Standing and facing it.
C11_LookAtEndsStandingAtTarget ==
    [][(IsTick /\ ev.look # -1 /\ OctantsApart(units[selected].direction, ev.look) <= 1)
         => (/\ units'[selected].status = STATUS_STANDING
             /\ units'[selected].direction = ev.look)]_vars

\* C11 (amended): a look-at issued to a Standing unit makes its target octant t the
\* unit's target facing; every tick on a Turning unit not yet at its target moves the
\* facing one octant nearer to it, so the facing reaches t; when no path is staged the
\* unit then stays Standing and facing t; a look-at toward the current facing leaves
\* the unit Standing, and a tick on a Standing unit with no staged path never puts it
\* into Turning.
C11_LookAtReachesTarget ==
    /\ (ev.look # -1 /\ commands = MaxCommands /\ path = <<>>)
          ~> [](/\ units[selected].status = STATUS_STANDING
                /\ units[selected].direction = units[selected].toDirection)
    /\ [][ev'.look # -1 => units'[selected].toDirection = ev'.look]_vars
    /\ [][(IsTick /\ units[selected].status = STATUS_TURNING
                   /\ units[selected].toDirection # units[selected].direction)
             => OctantsApart(units'[selected].direction, units[selected].toDirection)
                  = OctantsApart(units[selected].direction, units[selected].toDirection) - 1]_vars
    /\ [][(IsTick /\ path = <<>>)
             => units'[selected].toDirection = units[selected].toDirection]_vars
    /\ [][(ev'.op = "mapClick" /\ ev'.look = units[selected].direction)
             => units'[selected].status = STATUS_STANDING]_vars
    /\ [][(IsTick /\ units[selected].status = STATUS_STANDING /\ path = <<>>)
             => units'[selected].status = STATUS_STANDING]_vars

\* unit 2, told to look west from its start cell, has turned from north through
\* north-west and stands facing west, with no path ever staged
C11_Witness_TurnedToTarget ==
    /\ ev.op = "moveUnit" /\ ev.turned
    /\ selected = 2
    /\ units[2].status = STATUS_STANDING
    /\ units[2].direction = 6
    /\ units[2].pos = <<3, 1, 0>>
    /\ path = <<>> /\ pathUnit = 0

-----------------------------------------------------------------------------
\* C12: the selection cursor is hidden in every state in which some unit is in a
\* Walking step.
C12_CursorHiddenWhileWalking ==
    \A u \in Units : units[u].status = STATUS_WALKING => cursorHidden

-----------------------------------------------------------------------------
\* C13: a walk tick plays a footstep exactly when it leaves the unit in walking phase 3
\* or 7 of a step whose destination tile has a sound class, and the sound is the one of
\* that destination tile's class: 22 + 2 * class at phase 3, 23 + 2 * class at phase 7.
C13_FootstepByDestinationTile ==
    ev.op = "moveUnit" =>
        LET u == units[selected]
            class == getFootstepSound(u.destination)
        IN  ev.sound = IF u.status = STATUS_WALKING /\ u.walkingPhase = 3 /\ class # 0
                       THEN 22 + class * 2
                       ELSE IF u.status = STATUS_WALKING /\ u.walkingPhase = 7 /\ class # 0
                       THEN 23 + class * 2
                       ELSE 0

-----------------------------------------------------------------------------
\* C14: a left click on a cell occupied by a unit selects that unit and issues no move
\* command: calculate is not called, and the staged path and every unit's position,
\* facing, status and time units are unchanged, whatever the budget of the unit that
\* was selected before.
C14_ClickOnUnitSelectsOnly ==
    [][(ev'.op = "mapClick" /\ ev'.button = SDL_BUTTON_LEFT
          /\ \E u \in Units : units[u].pos = ev'.target)
         => (/\ units[selected'].pos = ev'.target
             /\ ~ev'.calc
             /\ path' = path /\ pathUnit' = pathUnit
             /\ units' = units)]_vars

\* soldier 2, with 3 time units, is selected and mid-step with a path staged when a
\* left click on soldier 1's cell selects soldier 1
C14_Witness_SelectedByClick ==
    /\ ev.op = "mapClick" /\ ev.button = SDL_BUTTON_LEFT
    /\ ev.target = units[1].pos
    /\ selected = 1
    /\ pathUnit = 2 /\ path # <<>>
    /\ units[2].status = STATUS_WALKING

-----------------------------------------------------------------------------
\* what a look-at may change of a unit: its facing target and, from Standing, its status
SameButFacing(a, b) ==
    /\ a.pos = b.pos /\ a.tu = b.tu /\ a.direction = b.direction
    /\ a.walkingPhase = b.walkingPhase /\ a.destination = b.destination

\* C15: a right click is a pure facing change: calculate is not called, the staged path,
\* the selection, every unit's position and time units are unchanged and only the
\* selected unit is touched; a left click never issues a look-at: it leaves every
\* unit's facing, facing target and status as they were.
C15_RightClickOnlyFaces ==
    /\ [][(ev'.op = "mapClick" /\ ev'.button = SDL_BUTTON_RIGHT)
            => (/\ ~ev'.calc
                /\ path' = path /\ pathUnit' = pathUnit
                /\ selected' = selected
                /\ units'[selected] = lookAt(units[selected], ev'.target)
                /\ \A u \in Units : SameButFacing(units[u], units'[u])
                /\ \A u \in Units \ {selected} : units'[u] = units[u])]_vars
    /\ [][(ev'.op = "mapClick" /\ ev'.button = SDL_BUTTON_LEFT)
            => (ev'.look = -1 /\ units' = units)]_vars

\* a right click has put a Standing unit into Turning while a path stays staged
C15_Witness_LookWithPathStaged ==
    /\ ev.op = "mapClick" /\ ev.button = SDL_BUTTON_RIGHT
    /\ ev.look # -1
    /\ units[selected].status = STATUS_TURNING
    /\ units[selected].toDirection = ev.look
    /\ path # <<>>

-----------------------------------------------------------------------------
\* the cells a unit can get to by steps that getTUCost allows
RECURSIVE ReachFrom(_, _)
ReachFrom(S, unit) ==
    LET N == S \cup UNION {{getTUCost(p, d, unit).destination :
                                d \in {e \in Directions : ~isBlocked(p, e, unit)}} : p \in S}
    IN  IF N = S THEN S ELSE ReachFrom(N, unit)

Reachable(unit, goal) == goal \in ReachFrom({units[unit].pos}, unit)

\* C16: a move command to a destination the selected unit cannot reach yields NoPath
\* and changes no unit: status, position, facing and time units are as before the
\* call; and a walk tick that finds no staged path starts no step and issues no turn.
C16_UnreachableChangesNothing ==
    /\ [][(ev'.calc /\ ~Reachable(selected, ev'.target))
            => (path' = <<>> /\ units' = units /\ selected' = selected)]_vars
    /\ [][(IsTick /\ path = <<>>)
            => (/\ ~ev'.started
                /\ path' = <<>>
                /\ AfterAnimation.status = STATUS_STANDING
                      => units'[selected] = AfterAnimation)]_vars

\* soldier 1 is sent to the upper floor cell (3,0,1), which only the stairs under
\* soldier 2 lead to: the cell is passable but enclosed, and no path is staged
C16_Witness_EnclosedTarget ==
    /\ ev.calc /\ ev.target = <<3, 0, 1>>
    /\ isPassable(ev.target)
    /\ selected = 1
    /\ ~Reachable(1, ev.target)
    /\ path = <<>> /\ pathUnit = 1

-----------------------------------------------------------------------------
-----------------------------------------------------------------------------
\* C18: a think call runs moveUnit at most once and moveBullet at most once, however
\* many intervals have elapsed since the previous call: each runs exactly once when at
\* least one interval has elapsed, and the intervals that were missed are dropped, not
\* kept for a later call.
C18_AtMostOneFiringPerThink ==
    timers.op = "think" =>
        /\ timers.walkFires = (IF timers.walkWas >= 1 THEN 1 ELSE 0)
        /\ timers.bulletFires = (IF timers.bulletWas >= 1 THEN 1 ELSE 0)
        /\ timers.walkDue = 0 /\ timers.bulletDue = 0
        /\ ev.op \in {"moveUnit", "think"}
              => ev.op = (IF timers.walkFires = 1 THEN "moveUnit" ELSE "think")

\* a think call that came after two walking and two bullet intervals ran moveUnit once
C18_Witness_TwoIntervalsOneTick ==
    /\ timers.op = "think"
    /\ timers.walkWas = 2 /\ timers.bulletWas = 2
    /\ timers.walkFires = 1 /\ timers.bulletFires = 1
    /\ ev.op = "moveUnit"

-----------------------------------------------------------------------------
\* C19 (as stated): one moveUnit call performs at most one of: advancing the walking
\* phase, one facing increment, one Standing decision (issue a turn, start walking, or
\* restore the cursor); it never finishes a Walking or Turning step and starts the
\* next one in the same call.
C19_OneStepPerFiring ==
    ev.op = "moveUnit" =>
        /\ ~(ev.walked /\ ev.turned)
        /\ ~(ev.walked /\ ev.decision # "none")
        /\ ~(ev.turned /\ ev.decision # "none")
        /\ ~((ev.ended \/ ev.turned) /\ ev.started)

\* C19 (amended): one moveUnit call advances the walking phase at most once and the
\* facing by at most one octant, never both, and then makes at most one Standing
\* decision; the decision is made in the same call whenever the unit is Standing after
\* that, so the call that finishes a step or a turn also starts the next step when the
\* path's next direction is the unit's facing. A step started in a call is not
\* advanced in that call, and at most one direction is dequeued.
C19_OneOfEachPerFiring ==
    [][IsTick =>
        LET u == units[selected]
            v == units'[selected]
        IN  /\ ~(ev'.walked /\ ev'.turned)
            /\ ev'.walked = (u.status = STATUS_WALKING)
            /\ ev'.walked => ev'.ended = (u.walkingPhase = WalkPhases - 1)
            /\ (ev'.walked /\ ~ev'.ended)
                  => (v.status = STATUS_WALKING /\ v.walkingPhase = u.walkingPhase + 1)
            /\ ev'.turned = (u.status = STATUS_TURNING)
            /\ OctantsApart(u.direction, v.direction) <= 1
            /\ ev'.decision \in {"none", "turn", "walk", "cursor"}
            /\ ev'.started = (ev'.decision = "walk")
            /\ ev'.started => (v.status = STATUS_WALKING /\ v.walkingPhase = 0)
            /\ Len(path') >= Len(path) - 1
            /\ Len(path') = Len(path) - 1 <=> ev'.started
            /\ (ev'.ended /\ path # <<>> /\ Head(path) = u.direction) => ev'.started
            /\ \A o \in Units \ {selected} : units'[o] = units[o]]_vars

\* a call that finished one step has started the next one
C19_Witness_StepEndsAndNextStarts ==
    /\ ev.op = "moveUnit"
    /\ ev.walked /\ ev.ended
    /\ ev.started /\ ev.decision = "walk"
    /\ units[selected].status = STATUS_WALKING
    /\ units[selected].walkingPhase = 0

-----------------------------------------------------------------------------
\* C20 (as stated): when a think call has run the walk tick, the map drawn by that tick
\* shows the unit with the position, facing, status and walking phase the tick leaves
\* it with: no change is made after the draw.
C20_DrawnAfterAllChanges ==
    (ev.op = "moveUnit" /\ ev.drawn # <<>>) =>
        /\ ev.drawn[1].pos = units[selected].pos
        /\ ev.drawn[1].direction = units[selected].direction
        /\ ev.drawn[1].status = units[selected].status
        /\ ev.drawn[1].walkingPhase = units[selected].walkingPhase

\* C20 (amended): the walk tick draws the map exactly when it advanced the walking
\* phase or the facing, after that change, and the unit's position, facing, walking
\* phase and time units are final when the map is drawn; the Standing decision comes
\* after the draw, so a unit drawn Standing may leave the tick Turning or Walking at
\* phase 0, and is exactly as drawn when no turn is issued and no step is started.
C20_DrawnBeforeStandingDecision ==
    ev.op = "moveUnit" =>
        /\ (ev.drawn # <<>>) = (ev.walked \/ ev.turned)
        /\ ev.drawn # <<>> =>
              LET d == ev.drawn[1]
                  u == units[selected]
              IN  /\ d.pos = u.pos /\ d.direction = u.direction
                  /\ d.walkingPhase = u.walkingPhase /\ d.tu = u.tu
                  /\ ev.decision \in {"none", "cursor"} => d = u
                  /\ ev.decision = "turn"
                        => (d.status = STATUS_STANDING /\ u.status = STATUS_TURNING)
                  /\ ev.decision = "walk"
                        => (d.status = STATUS_STANDING /\ u.status = STATUS_WALKING)

\* a think call ran the walk tick, which finished a step, drew the unit Standing on the
\* tile it reached and then started the next step
C20_Witness_DrawnThenStarted ==
    /\ timers.op = "think" /\ timers.walkFires = 1
    /\ ev.op = "moveUnit" /\ ev.ended /\ ev.started
    /\ ev.drawn # <<>>
    /\ ev.drawn[1].status = STATUS_STANDING
    /\ ev.drawn[1].pos = units[selected].pos
    /\ units[selected].status = STATUS_WALKING

-----------------------------------------------------------------------------
\* C21: abort does not cut a tile traversal short: when the battlescape state has been
\* left, no unit is in status Walking (every step in progress was completed first).
C21_NoUnitLeftMidStep ==
    ~onStack => \A u \in Units : units[u].status # STATUS_WALKING

-----------------------------------------------------------------------------
\* C22: the selected unit changes only by a left click on a cell a unit occupies, which
\* selects that unit, or by next-unit (end-turn is empty): think calls with their walk
\* and bullet ticks, move commands to empty cells, look-at, centre, map layer up and
\* down, and abort all leave the selected unit unchanged.
C22_SelectionChangesOnlyBySelect ==
    [][selected' # selected =>
         \/ /\ ev'.op = "mapClick" /\ ev'.button = SDL_BUTTON_LEFT
            /\ units[selected'].pos = ev'.target
            /\ ~ev'.calc
         \/ /\ ev'.op = "btnNextSoldier"
            /\ selected' = selectNextSoldier]_vars

\* a think call that fired both timers started the step a left click on an empty cell
\* had staged for the selected unit, and that unit is still the selected one
C22_Witness_TicksKeepSelection ==
    /\ timers.op = "think" /\ timers.walkFires = 1 /\ timers.bulletFires = 1
    /\ ev.op = "moveUnit" /\ ev.started
    /\ pathUnit = selected
    /\ units[selected].status = STATUS_WALKING

-----------------------------------------------------------------------------
\* C23: Timer::gameSlowSpeed, starting from 1, is always 1, 5 or 15; an Alt+F8 key press
\* with debug mode on advances it 1 -> 5 -> 15 -> 1, and every other event, and every
\* Alt+F8 press with debug mode off, leaves it unchanged.
C23_SlowSpeedCycle ==
    /\ [](screen.gameSlowSpeed \in {1, 5, 15})
    /\ [][IF screen.debug /\ screen'.last = <<SDL_KEYDOWN, SDLK_F8, TRUE>>
          THEN /\ screen.gameSlowSpeed = 1 => screen'.gameSlowSpeed = 5
               /\ screen.gameSlowSpeed = 5 => screen'.gameSlowSpeed = 15
               /\ screen.gameSlowSpeed = 15 => screen'.gameSlowSpeed = 1
          ELSE screen'.gameSlowSpeed = screen.gameSlowSpeed]_vars

\* the third Alt+F8 press with debug mode on has brought the multiplier back to 1
C23_Witness_FullCycle ==
    /\ screen.debug
    /\ screen.keys = 3
    /\ screen.last = <<SDL_KEYDOWN, SDLK_F8, TRUE>>
    /\ screen.gameSlowSpeed = 1
    /\ ~screen.fullscreen

-----------------------------------------------------------------------------
\* routes, walked step by step with getTUCost

RECURSIVE RouteEnd(_, _, _)
RouteEnd(from, route, unit) ==
    IF route = <<>> THEN from
    ELSE RouteEnd(getTUCost(from, Head(route), unit).destination, Tail(route), unit)

RECURSIVE RouteCost(_, _, _)
RouteCost(from, route, unit) ==
    IF route = <<>> THEN 0
    ELSE getTUCost(from, Head(route), unit).cost
           + RouteCost(getTUCost(from, Head(route), unit).destination, Tail(route), unit)

RECURSIVE ValidRoute(_, _, _)
ValidRoute(from, route, unit) ==
    \/ route = <<>>
    \/ /\ Head(route) \in Directions
       /\ ~isBlocked(from, Head(route), unit)
       /\ ValidRoute(getTUCost(from, Head(route), unit).destination, Tail(route), unit)

SetMin(S) == CHOOSE m \in S : \A n \in S : m <= n

\* the least total cost of any valid route to each cell that has one, by relaxation
RECURSIVE Relax(_, _)
Relax(D, unit) ==
    LET Edges == {e \in (DOMAIN D) \X Directions : ~isBlocked(e[1], e[2], unit)}
        Into(c) == {e \in Edges : getTUCost(e[1], e[2], unit).destination = c}
        N == (DOMAIN D) \cup {getTUCost(e[1], e[2], unit).destination : e \in Edges}
        D2 == [c \in N |->
                 SetMin((IF c \in DOMAIN D THEN {D[c]} ELSE {})
                          \cup {D[e[1]] + getTUCost(e[1], e[2], unit).cost : e \in Into(c)})]
    IN  IF D2 = D THEN D ELSE Relax(D2, unit)

LeastCosts(unit) == Relax([c \in {units[unit].pos} |-> 0], unit)

\* C24: for every destination the selected unit can reach, calculate returns a valid
\* route from the unit's cell to the destination; the total cost held for it is the
\* sum of the costs to enter along its steps, and no valid route to the destination
\* has a smaller total cost.
C24_PathCostIsLeast ==
    [][(ev'.calc /\ Reachable(selected, ev'.target) /\ ev'.target # units[selected].pos)
         => LET from == units[selected].pos
            IN  /\ path' # <<>>
                /\ ValidRoute(from, path', selected)
                /\ RouteEnd(from, path', selected) = ev'.target
                /\ totalCost(selected, ev'.target) = RouteCost(from, path', selected)
                /\ RouteCost(from, path', selected) = LeastCosts(selected)[ev'.target]]_vars

\* soldier 2, on the stairs, is sent to (1,1,0): the corner of the wall cannot be cut,
\* and the cheapest route is the four steps over the upper floor
C24_Witness_RouteOverUpperFloor ==
    /\ ev.calc /\ ev.target = <<1, 1, 0>>
    /\ selected = 2 /\ pathUnit = 2
    /\ units[2].pos = <<3, 1, 0>>
    /\ Len(path) = 4
    /\ RouteEnd(units[2].pos, path, 2) = <<1, 1, 0>>
    /\ RouteCost(units[2].pos, path, 2) = LeastCosts(2)[<<1, 1, 0>>]

-----------------------------------------------------------------------------
\* no diagonal step of the route passes between cells that are not both passable
RECURSIVE NoCornerCut(_, _, _)
NoCornerCut(from, route, unit) ==
    \/ route = <<>>
    \/ LET d == Head(route)
           v == directionToVector(d)
       IN  /\ (v[1] # 0 /\ v[2] # 0)
                 => /\ isPassable(<<from[1] + v[1], from[2], from[3]>>)
                    /\ isPassable(<<from[1], from[2] + v[2], from[3]>>)
           /\ NoCornerCut(getTUCost(from, d, unit).destination, Tail(route), unit)

\* C25: no path calculate returns contains a diagonal step for which either of the
\* two flanking orthogonal cells is impassable.
C25_NoCornerCutting ==
    [][ev'.calc => NoCornerCut(units[selected].pos, path', selected)]_vars

\* soldier 1, standing at (1,1,0) beside the wall at (2,1,0), is sent to (3,0,0): the
\* path goes round the corner in three steps instead of cutting it north-east
C25_Witness_RoundTheCorner ==
    /\ ev.calc /\ ev.target = <<3, 0, 0>>
    /\ selected = 1 /\ pathUnit = 1
    /\ units[1].pos = <<1, 1, 0>> /\ units[1].status = STATUS_STANDING
    /\ Len(path) = 3
    /\ Head(path) # 1

-----------------------------------------------------------------------------
\* frontiers of three nodes with costs of one or two steps
FrontierCosts == [1..3 -> {walkCost(NoPosition), 2 * walkCost(NoPosition)}]

-----------------------------------------------------------------------------
\* C27: tile/voxel conversion is exact: p.toVoxel().toTile() == p for every tile
\* position p held in a Position.
C27_VoxelRoundTrip ==
    position.op = "toVoxel.toTile" => position.result = position.p

-----------------------------------------------------------------------------
\* the directions of ds that unit u walked, ws naming the walker of each
RECURSIVE DirectionsOf(_, _, _)
DirectionsOf(u, ws, ds) ==
    IF ws = <<>> THEN <<>>
    ELSE (IF Head(ws) = u THEN <<Head(ds)>> ELSE <<>>)
             \o DirectionsOf(u, Tail(ws), Tail(ds))

\* s is the front of t
IsPrefix(s, t) == Len(s) <= Len(t) /\ SubSeq(t, 1, Len(s)) = s

\* C28: the staged path is consumed front-to-back, one direction per Walking step:
\* getStartDirection returns -1 exactly when no path is staged and otherwise the
\* direction the next dequeuePath removes; every Standing -> Walking transition
\* dequeues exactly once, so the path as calculated is the directions walked followed
\* by what is still staged; and the directions each unit walks are, in order, a prefix
\* of the path as calculated.
C28_PathWalkedFrontToBack ==
    /\ (getStartDirection(path) = -1) <=> (path = <<>>)
    /\ path # <<>> => <<getStartDirection(path)>> \o dequeuePath(path) = path
    /\ Len(hist.walkers) + Len(path) = Len(hist.calc)
    /\ path = SubSeq(hist.calc, Len(hist.walkers) + 1, Len(hist.calc))
    /\ \A u \in Units : IsPrefix(DirectionsOf(u, hist.walkers, hist.calc), hist.calc)

-----------------------------------------------------------------------------
\* C29: every Walking or Turning step that has started completes while walk ticks
\* keep firing, whatever commands come in between: a unit that is in the middle of a
\* step or a turn, also one that is no longer the selected unit, reaches Standing
\* (stated for as long as the battlescape state is on the stack and gets its ticks).
C29_StartedStepCompletes ==
    \A u \in Units :
        (onStack /\ units[u].status # STATUS_STANDING)
            ~> (units[u].status = STATUS_STANDING \/ ~onStack)

-----------------------------------------------------------------------------
\* C30: the 'moved' latch belongs to the unit that walked: a walk tick that sets the
\* view height sets it to the z of a unit that has ended a Walking step since the latch
\* was set, also when the selection changed in between; and the latch is true only
\* from the start of a Walking step until that unit is Standing again.
C30_LatchBelongsToWalker ==
    /\ (ev.op = "moveUnit" /\ ev.viewSet)
          => \E u \in ev.viewBy : viewHeight = units[u].pos[3]
    /\ moved => /\ hist.latchBy \in Units
                /\ units[hist.latchBy].status = STATUS_WALKING

-----------------------------------------------------------------------------
\* the exact sum of the squared differences of the first n components of p and q
SumOfSquares(p, q, n) ==
    LET sq(i) == Square(p[i] - q[i])
    IN  IF n = 2 THEN WideAdd(sq(1), sq(2)) ELSE WideAdd(WideAdd(sq(1), sq(2)), sq(3))

\* C31: distanceSq and distance2dSq are symmetric and non-negative for every pair of
\* positions with 16-bit signed components, are 0 exactly when the compared components
\* are equal, and equal the exact sum of the squared component differences: the int
\* result does not wrap around.
C31_DistanceExact ==
    position.op \in {"distanceSq", "distance2dSq"} =>
        LET n     == IF position.op = "distanceSq" THEN 3 ELSE 2
            exact == SumOfSquares(position.p, position.q, n)
            back  == IF n = 3 THEN distanceSq(position.q, position.p)
                              ELSE distance2dSq(position.q, position.p)
        IN  /\ ~position.result.trapped
            /\ position.result \in back
            /\ position.result.value >= 0
            /\ (position.result.value = 0)
                  <=> (\A i \in 1..n : position.p[i] = position.q[i])
            /\ FitsInt(exact)
            /\ position.result.value = exact.hi * 65536 + exact.lo

====
